---- MODULE Spec2Model ----
(***************************************************************************)
(* State-machine model of reinforcement/agent.py: AgentConfig, AgentBase   *)
(* and the agent variants PG, DQN and HillClimbing, together with the      *)
(* collaborators they drive (the Experience buffer and the network).       *)
(*                                                                         *)
(* Real numbers are held exactly as integers in units of 1/Den: the        *)
(* options gamma, tau and epsilon, the weights and the DQN targets.        *)
(***************************************************************************)
EXTENDS Integers, Sequences, FiniteSets, TLC

Den == 2

NActions == 2
MaxEpisode == 2

Actions == 0 .. (NActions - 1)
States == {1, 2}
Rewards == {-1, 1}
Kinds == {"PG", "DeepQLearning", "HillClimbing"}

VARIABLES kind, cfg, net, shadow_net, xp,
          X, Y, rewards, Q, R, A, bestreward,
          op, arg, ret, err, calls, batch, remembered

vars == <<kind, cfg, net, shadow_net, xp, X, Y, rewards, Q, R, A, bestreward,
          op, arg, ret, err, calls, batch, remembered>>

----------------------------------------------------------------------------
(* Small helpers.                                                          *)

Min2(a, b) == IF a <= b THEN a ELSE b

Range(s) == {s[i] : i \in DOMAIN s}

RECURSIVE SumSeq(_)
SumSeq(s) == IF s = <<>> THEN 0 ELSE Head(s) + SumSeq(Tail(s))

RECURSIVE Pow(_, _)
Pow(b, e) == IF e = 0 THEN 1 ELSE b * Pow(b, e - 1)

(* Python's None for a reward is the empty option <<>>, a number r is <<r>>. *)
None == <<>>
Some(v) == <<v>>

(* The return value of the last call: None, an action, or (cost, D).       *)
RetNone == <<>>
RetAction(a) == <<a>>
RetPair(c, d) == <<c, d>>

(* A number n / sqrt(d2); d2 = 1 is a plain number, d2 = 0 is NaN.         *)
Num(n) == [n |-> n, d2 |-> 1]
NaN == [n |-> 0, d2 |-> 0]

----------------------------------------------------------------------------
(* The network collaborator: predict, train_on_batch, get/set_weights.     *)
(* Its flattened weight vector W has one trainable weight; the output for  *)
(* state s is W[1] * s for action 0 and the fixed bias Den for the others. *)

WeightValues == 0 .. Den
Weights == [{1} -> WeightValues]

Predict(W, s) == [a \in Actions |-> IF a + 1 \in DOMAIN W THEN W[a + 1] * s ELSE Den]

(* The action-probability output of a policy network: the mass is spread   *)
(* evenly over the maximal outputs, every other action has probability 0.  *)
PredictProbs(W, s) ==
    LET o == Predict(W, s)
    IN  [a \in Actions |-> IF \A b \in Actions : o[b] <= o[a] THEN 1 ELSE 0]

(* One optimisation step moves one weight by one unit.                     *)
TrainOnBatch(W) ==
    {W2 \in Weights : \E a \in DOMAIN W :
        /\ W2[a] \in {W[a] - 1, W[a] + 1}
        /\ \A b \in DOMAIN W \ {a} : W2[b] = W[b]}

Costs == {0, 1}

(* np.argmax: the first index of a maximal entry.                          *)
ArgMax(v) ==
    CHOOSE a \in Actions :
        /\ \A b \in Actions : v[b] <= v[a]
        /\ \A b \in Actions : b < a => v[b] < v[a]

MaxOf(v) == v[ArgMax(v)]

----------------------------------------------------------------------------
(* util.rl_util: the Experience buffer and discount_rewards.               *)

Experience(limit) == [limit |-> limit, mem |-> <<>>]

Zip(Xs, Ys) == [i \in 1 .. Min2(Len(Xs), Len(Ys)) |-> [x |-> Xs[i], y |-> Ys[i]]]

(* Mutant: the newest entries are dropped instead of the oldest.           *)
Evict_newest(mem, limit) ==
    IF Len(mem) > limit THEN SubSeq(mem, 1, limit) ELSE mem

RECURSIVE Evict(_, _)
Evict(mem, limit) ==
    IF Len(mem) > limit /\ Len(mem) > 0 THEN Evict(Tail(mem), limit) ELSE mem

Remember(x, Xs, Ys) == [x EXCEPT !.mem = Evict(x.mem \o Zip(Xs, Ys), x.limit)]

RECURSIVE SortedSeq(_)
SortedSeq(S) ==
    IF S = {} THEN <<>>
    ELSE LET m == CHOOSE i \in S : \A j \in S : i <= j
         IN  <<m>> \o SortedSeq(S \ {m})

(* The samples replay(n) may draw: min(n, size) distinct positions.        *)
ReplayChoices(x, n) ==
    LET k == Len(x.mem)
        m == IF n <= 0 THEN 0 ELSE Min2(n, k)
    IN  {SortedSeq(S) : S \in {T \in SUBSET (1 .. k) : Cardinality(T) = m}}

Replay(x, ix) ==
    [ix |-> ix,
     X |-> [i \in 1 .. Len(ix) |-> x.mem[ix[i]].x],
     Y |-> [i \in 1 .. Len(ix) |-> x.mem[ix[i]].y]]

NoBatch == [ix |-> <<>>, X |-> <<>>, Y |-> <<>>]

(* discount_rewards: G[t] = r[t] + gamma * G[t+1], G[T] = r[T].  The       *)
(* result is in units of 1 / Den^(T-1), which keeps every G[t] integral.   *)
RECURSIVE DiscountFrom(_, _, _)
DiscountFrom(Rs, g, t) ==
    LET T == Len(Rs)
        unit == Pow(Den, T - 1)
    IN  IF t = T THEN <<unit * Rs[T]>>
        ELSE LET rest == DiscountFrom(Rs, g, t + 1)
             IN  <<unit * Rs[t] + (g * Head(rest)) \div Den>> \o rest

discount_rewards(Rs, g) == IF Rs = <<>> THEN <<>> ELSE DiscountFrom(Rs, g, 1)

----------------------------------------------------------------------------
(* AgentConfig and AgentBase.                                              *)

AgentConfig(bsize, gamma, tau, epsilon, xpsize) ==
    [bsize |-> bsize, gamma |-> gamma, tau |-> tau,
     epsilon |-> epsilon, xpsize |-> xpsize]

Configs ==
    {AgentConfig(1, 0, Den, Den, 2),
     AgentConfig(1, 1, Den, 1, 1),
     AgentConfig(2, 1, 1, 0, 1)}

InitWeights == {<<0>>}

(* np.random.uniform(): a draw in [0, 1), in units of 1/Den.               *)
Uniform == 0 .. (Den - 1)

(* Mutant: the drift is measured after the shadow weights were updated.    *)
PushWeightsOf_driftafter(shadow, W, tau) ==
    LET new == [a \in DOMAIN W |->
                   ((Den - tau) * shadow[a]) \div Den + (tau * W[a]) \div Den]
    IN  [shadow |-> new,
         D |-> [ss |-> SumSeq([i \in 1 .. Len(W) |->
                                  (new[i] - W[i]) * (new[i] - W[i])]),
                n |-> Len(W)]]

(* push_weights: the drift D is sqrt(ss) / n, kept as the pair (ss, n).    *)
PushWeightsOf(shadow, W, tau) ==
    [shadow |-> [a \in DOMAIN W |->
                    ((Den - tau) * shadow[a]) \div Den + (tau * W[a]) \div Den],
     D |-> [ss |-> SumSeq([i \in 1 .. Len(W) |->
                              (shadow[i] - W[i]) * (shadow[i] - W[i])]),
            n |-> Len(W)]]

(* Mutant: replay is asked for the buffer capacity.                        *)
BatchSize_xpsize(c) == c.xpsize

(* The size learn_batch asks replay for.                                   *)
BatchSize(c) == c.bsize

(* Mutant: the shadow weights are pushed a second time.                    *)
LearnBatchOf_pushtwice(x, W, shadow, tau, ix, W2, c) ==
    LET b == Replay(x, ix)
        N == Len(b.X)
    IN  IF N = 0
        THEN [net |-> W, shadow |-> shadow, ret |-> RetNone,
              calls |-> <<"replay">>, batch |-> b]
        ELSE LET p1 == PushWeightsOf(shadow, W2, tau)
                 p  == PushWeightsOf(p1.shadow, W2, tau)
             IN  [net |-> W2, shadow |-> p.shadow, ret |-> RetPair(c, p.D),
                  calls |-> <<"replay", "train_on_batch", "push_weights",
                              "push_weights">>,
                  batch |-> b]

(* Mutant: the shadow weights are pushed before the batch is trained on.   *)
LearnBatchOf_pushfirst(x, W, shadow, tau, ix, W2, c) ==
    LET b == Replay(x, ix)
        N == Len(b.X)
    IN  IF N = 0
        THEN [net |-> W, shadow |-> shadow, ret |-> RetNone,
              calls |-> <<"replay">>, batch |-> b]
        ELSE LET p == PushWeightsOf(shadow, W, tau)
             IN  [net |-> W2, shadow |-> p.shadow, ret |-> RetPair(c, p.D),
                  calls |-> <<"replay", "train_on_batch", "push_weights">>,
                  batch |-> b]

(* Mutant: the empty sample is trained on like any other.                  *)
LearnBatchOf_noguard(x, W, shadow, tau, ix, W2, c) ==
    LET b == Replay(x, ix)
        p == PushWeightsOf(shadow, W2, tau)
    IN  [net |-> W2, shadow |-> p.shadow, ret |-> RetPair(c, p.D),
         calls |-> <<"replay", "train_on_batch", "push_weights">>,
         batch |-> b]

(* learn_batch, for the sample ix drawn by replay, the weights W2 left by  *)
(* train_on_batch and the cost c it returns.                               *)
LearnBatchOf(x, W, shadow, tau, ix, W2, c) ==
    LET b == Replay(x, ix)
        N == Len(b.X)
    IN  IF N = 0
        THEN [net |-> W, shadow |-> shadow, ret |-> RetNone,
              calls |-> <<"replay">>, batch |-> b]
        ELSE LET p == PushWeightsOf(shadow, W2, tau)
             IN  [net |-> W2, shadow |-> p.shadow, ret |-> RetPair(c, p.D),
                  calls |-> <<"replay", "train_on_batch", "push_weights">>,
                  batch |-> b]

Init ==
    /\ kind \in Kinds
    /\ cfg \in Configs
    /\ net \in InitWeights
    /\ shadow_net = net
    /\ xp = Experience(cfg.xpsize)
    /\ X = <<>>
    /\ Y = <<>>
    /\ rewards = IF kind = "HillClimbing" THEN 0 ELSE <<>>
    /\ Q = <<>>
    /\ R = <<>>
    /\ A = <<>>
    /\ bestreward = 0
    /\ op = "init"
    /\ arg = <<>>
    /\ ret = RetNone
    /\ err = "none"
    /\ calls = <<>>
    /\ batch = NoBatch
    /\ remembered = <<>>

(* What every call leaves in the observation variables.                    *)
Observe(o, g, r, e, c, b, m) ==
    /\ op' = o
    /\ arg' = g
    /\ ret' = r
    /\ err' = e
    /\ calls' = c
    /\ batch' = b
    /\ remembered' = m

(* The driver calls the base methods between episodes.                    *)
BetweenEpisodes == X = <<>>

LearnBatch ==
    /\ BetweenEpisodes
    /\ \E ix \in ReplayChoices(xp, BatchSize(cfg)), W2 \in TrainOnBatch(net), c \in Costs :
          LET lb == LearnBatchOf(xp, net, shadow_net, cfg.tau, ix, W2, c)
          IN  /\ net' = lb.net
              /\ shadow_net' = lb.shadow
              /\ Observe("learn_batch", <<>>, lb.ret, "none", lb.calls, lb.batch, <<>>)
    /\ UNCHANGED <<kind, cfg, xp, X, Y, rewards, Q, R, A, bestreward>>

PushWeights ==
    /\ BetweenEpisodes
    /\ LET p == PushWeightsOf(shadow_net, net, cfg.tau)
       IN  /\ shadow_net' = p.shadow
           /\ Observe("push_weights", <<>>, <<p.D>>, "none", <<>>, NoBatch, <<>>)
    /\ UNCHANGED <<kind, cfg, net, xp, X, Y, rewards, Q, R, A, bestreward>>

PullWeights ==
    /\ BetweenEpisodes
    /\ net' = shadow_net
    /\ Observe("pull_weights", <<>>, RetNone, "none", <<>>, NoBatch, <<>>)
    /\ UNCHANGED <<kind, cfg, shadow_net, xp, X, Y, rewards, Q, R, A, bestreward>>

----------------------------------------------------------------------------
(* PG: Policy Gradient.                                                    *)

(* list[1:]                                                                *)
PyTail(s) == IF s = <<>> THEN <<>> ELSE Tail(s)

(* list[:-1]                                                               *)
PyInit(s) == IF s = <<>> THEN <<>> ELSE SubSeq(s, 1, Len(s) - 1)

(* The rewards a driver passes: None only before the first action.         *)
RewardArgs(first) ==
    {Some(r) : r \in Rewards} \cup (IF first THEN {None} ELSE {})

(* An episode of PG or DQN starts with no reward yet, then has numbers.    *)
EpisodeRewardArgs(first) == IF first THEN {None} ELSE {Some(r) : r \in Rewards}

action_labels(a) == [b \in Actions |-> IF b = a THEN Num(1) ELSE Num(0)]

(* The actions PG.sample may return for the uniform draw u.                *)
PGChoice(W, s, epsilon, u) ==
    IF u < epsilon
    THEN {a \in Actions : PredictProbs(W, s)[a] > 0}
    ELSE Actions

PGSample(s, r) ==
    /\ kind = "PG"
    /\ Len(X) < MaxEpisode
    /\ X' = Append(X, s)
    /\ rewards' = Append(rewards, r)
    /\ \E u \in Uniform : \E a \in PGChoice(net, s, cfg.epsilon, u) :
          /\ Y' = Append(Y, action_labels(a))
          /\ Observe("sample", <<s, r>>, RetAction(a), "none", <<>>, NoBatch, <<>>)
    /\ UNCHANGED <<kind, cfg, net, shadow_net, xp, Q, R, A, bestreward>>

(* R -= R.mean(); R /= R.std(), exactly: (T*G - S) / sqrt(T*SS - S*S).     *)
Normalise(G) ==
    LET T == Len(G)
        S == SumSeq(G)
        SS == SumSeq([i \in 1 .. T |-> G[i] * G[i]])
        d2 == T * SS - S * S
    IN  [i \in 1 .. T |-> IF d2 = 0 THEN NaN ELSE [n |-> T * G[i] - S, d2 |-> d2]]

(* Mutant: the terminal reward is put first instead of last.               *)
PGRewards_prepend(rw, reward, gamma) ==
    LET Rs == <<reward>> \o [i \in 1 .. Len(PyTail(rw)) |-> PyTail(rw)[i][1]]
    IN  IF gamma > 0
        THEN Normalise(discount_rewards(Rs, gamma))
        ELSE [i \in 1 .. Len(Rs) |-> Num(Rs[i])]

(* The reward column R of PG.accumulate.                                   *)
PGRewards(rw, reward, gamma) ==
    LET Rs == [i \in 1 .. Len(PyTail(rw)) |-> PyTail(rw)[i][1]] \o <<reward>>
    IN  IF gamma > 0
        THEN Normalise(discount_rewards(Rs, gamma))
        ELSE [i \in 1 .. Len(Rs) |-> Num(Rs[i])]

Scale(y, v) == [n |-> y.n * v.n, d2 |-> y.d2 * v.d2]

(* Y[Y > 0.] *= R                                                          *)
PGLabels(Ys, Rv) ==
    [i \in 1 .. Len(Ys) |->
        [a \in Actions |-> IF Ys[i][a].n > 0 THEN Scale(Ys[i][a], Rv[i]) ELSE Ys[i][a]]]

PGReset ==
    /\ kind = "PG"
    /\ X' = <<>>
    /\ Y' = <<>>
    /\ rewards' = <<>>
    /\ Observe("reset", <<>>, RetNone, "none", <<>>, NoBatch, <<>>)
    /\ UNCHANGED <<kind, cfg, net, shadow_net, xp, Q, R, A, bestreward>>

PGAccumulate(reward) ==
    /\ kind = "PG"
    /\ IF Len(X) = 0
       THEN /\ Observe("accumulate", <<reward>>, RetNone, "ValueError", <<>>, NoBatch, <<>>)
            /\ UNCHANGED <<net, shadow_net, xp, X, Y, rewards>>
       ELSE LET Yl == PGLabels(Y, PGRewards(rewards, reward, cfg.gamma))
                x1 == Remember(xp, X, Yl)
            IN  \E ix \in ReplayChoices(x1, BatchSize(cfg)), W2 \in TrainOnBatch(net),
                   c \in Costs :
                   LET lb == LearnBatchOf(x1, net, shadow_net, cfg.tau, ix, W2, c)
                   IN  /\ xp' = x1
                       /\ X' = <<>>
                       /\ Y' = <<>>
                       /\ rewards' = <<>>
                       /\ net' = lb.net
                       /\ shadow_net' = lb.shadow
                       /\ Observe("accumulate", <<reward>>, RetNone,
                                  IF lb.ret = RetNone THEN "TypeError"
                                                      ELSE "AttributeError",
                                  <<"remember", "reset">> \o lb.calls,
                                  lb.batch, Zip(X, Yl))
    /\ UNCHANGED <<kind, cfg, Q, R, A, bestreward>>

----------------------------------------------------------------------------
(* DQN: Deep Q Network.  Targets are in units of 1/Den.                    *)

(* The actions DQN.sample may return for the uniform draw u.               *)
DQNChoice(Qv, epsilon, u) ==
    IF u < epsilon THEN {ArgMax(Qv)} ELSE Actions

DQNSample(s, r) ==
    /\ kind = "DeepQLearning"
    /\ Len(X) < MaxEpisode
    /\ X' = Append(X, s)
    /\ R' = Append(R, r)
    /\ Q' = Append(Q, Predict(net, s))
    /\ \E u \in Uniform : \E a \in DQNChoice(Predict(net, s), cfg.epsilon, u) :
          /\ A' = Append(A, a)
          /\ Observe("sample", <<s, r>>, RetAction(a), "none", <<>>, NoBatch, <<>>)
    /\ UNCHANGED <<kind, cfg, net, shadow_net, xp, Y, rewards, bestreward>>

(* Y = stack(Q[1:]); Y[:, tuple(A[1:])] = R + gamma * Y.max(axis=1)        *)
DQNTargets(Qs, As, rw, reward, gamma) ==
    LET Y0 == PyTail(Qs)
        ix == PyTail(As)
        Rs == [i \in 1 .. Len(PyTail(rw)) |-> PyTail(rw)[i][1]] \o <<reward>>
        rhs == [j \in 1 .. Len(Y0) |->
                   Den * Rs[IF Len(Rs) = 1 THEN 1 ELSE j] + gamma * MaxOf(Y0[j])]
        last(c) == CHOOSE j \in 1 .. Len(ix) :
                      /\ ix[j] = c
                      /\ \A k \in 1 .. Len(ix) : ix[k] = c => k <= j
    IN  [i \in 1 .. Len(Y0) |->
            [c \in Actions |->
                IF \E j \in 1 .. Len(ix) : ix[j] = c
                THEN rhs[last(c)]
                ELSE Den * Y0[i][c]]]

DQNReset ==
    /\ kind = "DeepQLearning"
    /\ X' = <<>>
    /\ Q' = <<>>
    /\ R' = <<>>
    /\ A' = <<>>
    /\ Observe("reset", <<>>, RetNone, "none", <<>>, NoBatch, <<>>)
    /\ UNCHANGED <<kind, cfg, net, shadow_net, xp, Y, rewards, bestreward>>

DQNAccumulate(reward) ==
    /\ kind = "DeepQLearning"
    /\ IF Len(PyInit(X)) = 0
       THEN /\ Observe("accumulate", <<reward>>, RetNone, "ValueError", <<>>, NoBatch, <<>>)
            /\ UNCHANGED <<net, shadow_net, xp, X, Q, R, A>>
       ELSE LET Yt == DQNTargets(Q, A, rewards, reward, cfg.gamma)
                x1 == Remember(xp, PyInit(X), Yt)
            IN  \E ix \in ReplayChoices(x1, BatchSize(cfg)), W2 \in TrainOnBatch(net),
                   c \in Costs :
                   LET lb == LearnBatchOf(x1, net, shadow_net, cfg.tau, ix, W2, c)
                   IN  /\ xp' = x1
                       /\ X' = <<>>
                       /\ Q' = <<>>
                       /\ R' = <<>>
                       /\ A' = <<>>
                       /\ net' = lb.net
                       /\ shadow_net' = lb.shadow
                       /\ Observe("accumulate", <<reward>>, RetNone,
                                  IF lb.ret = RetNone THEN "TypeError" ELSE "none",
                                  <<"remember", "reset">> \o lb.calls,
                                  lb.batch, Zip(PyInit(X), Yt))
    /\ UNCHANGED <<kind, cfg, Y, rewards, bestreward>>

----------------------------------------------------------------------------
(* HillClimbing.                                                           *)

RMax == MaxEpisode

(* W + randn * 0.1: every weight moves, by one unit.                       *)
Perturbed(W) ==
    {W2 \in Weights : \A a \in DOMAIN W : W2[a] \in {W[a] - 1, W[a] + 1}}

(* Mutant: the reward replaces the sum instead of being added to it.       *)
HCSample_assign(s, r) ==
    /\ kind = "HillClimbing"
    /\ rewards' = (IF r # None THEN r[1] ELSE 0)
    /\ rewards' \in (0 - RMax) .. RMax
    /\ Observe("sample", <<s, r>>, RetAction(ArgMax(Predict(net, s))), "none", <<>>, NoBatch, <<>>)
    /\ UNCHANGED <<kind, cfg, net, shadow_net, xp, X, Y, Q, R, A, bestreward>>

HCSample(s, r) ==
    /\ kind = "HillClimbing"
    /\ rewards' = rewards + (IF r # None THEN r[1] ELSE 0)
    /\ rewards' \in (0 - RMax) .. RMax
    /\ Observe("sample", <<s, r>>, RetAction(ArgMax(Predict(net, s))), "none", <<>>, NoBatch, <<>>)
    /\ UNCHANGED <<kind, cfg, net, shadow_net, xp, X, Y, Q, R, A, bestreward>>

HCReset ==
    /\ kind = "HillClimbing"
    /\ rewards' = 0
    /\ Observe("reset", <<>>, RetNone, "none", <<>>, NoBatch, <<>>)
    /\ UNCHANGED <<kind, cfg, net, shadow_net, xp, X, Y, Q, R, A, bestreward>>

(* Mutant: the reward of the last episode is kept as the best one.         *)
HCBest_last(rw, best, shadow, W) ==
    [bestreward |-> rw, shadow |-> IF rw > best THEN W ELSE shadow]

(* Mutant: the best weights are taken outside the comparison.              *)
HCBest_always(rw, best, shadow, W) ==
    [bestreward |-> IF rw > best THEN rw ELSE best, shadow |-> W]

(* Mutant: an equal reward also replaces the best.                         *)
HCBest_geq(rw, best, shadow, W) ==
    IF rw >= best THEN [bestreward |-> rw, shadow |-> W]
                  ELSE [bestreward |-> best, shadow |-> shadow]

(* The best reward and best weights HillClimbing.accumulate keeps.         *)
HCBest(rw, best, shadow, W) ==
    IF rw > best THEN [bestreward |-> rw, shadow |-> W]
                 ELSE [bestreward |-> best, shadow |-> shadow]

(* Mutant: accumulate ends with learn_batch, as in the other variants.     *)
HCAccumulate_learn(reward) ==
    /\ kind = "HillClimbing"
    /\ LET b == HCBest(rewards, bestreward, shadow_net, net)
       IN  /\ bestreward' = b.bestreward
           /\ shadow_net' = b.shadow
    /\ net' \in Perturbed(net)
    /\ rewards' = 0
    /\ Observe("accumulate", <<reward>>, RetNone, "none", <<"reset", "replay">>, NoBatch, <<>>)
    /\ UNCHANGED <<kind, cfg, xp, X, Y, Q, R, A>>

HCAccumulate(reward) ==
    /\ kind = "HillClimbing"
    /\ LET b == HCBest(rewards, bestreward, shadow_net, net)
       IN  /\ bestreward' = b.bestreward
           /\ shadow_net' = b.shadow
    /\ net' \in Perturbed(net)
    /\ rewards' = 0
    /\ Observe("accumulate", <<reward>>, RetNone, "none", <<"reset">>, NoBatch, <<>>)
    /\ UNCHANGED <<kind, cfg, xp, X, Y, Q, R, A>>

----------------------------------------------------------------------------

Sample == \E s \in States :
    \/ \E r \in EpisodeRewardArgs(X = <<>>) : PGSample(s, r) \/ DQNSample(s, r)
    \/ \E r \in RewardArgs(TRUE) : HCSample(s, r)

Accumulate == \E reward \in Rewards :
    PGAccumulate(reward) \/ DQNAccumulate(reward) \/ HCAccumulate(reward)

Reset == PGReset \/ DQNReset \/ HCReset

Next ==
    \/ Sample
    \/ Accumulate
    \/ Reset
    \/ LearnBatch
    \/ PushWeights
    \/ PullWeights

Spec == Init /\ [][Next]_vars

(* HillClimbing driven by episodes only: sample, accumulate, reset.        *)
InitHC == Init /\ kind = "HillClimbing"

NextHC ==
    \/ \E s \in States, r \in RewardArgs(TRUE) : HCSample(s, r)
    \/ \E reward \in Rewards : HCAccumulate(reward)
    \/ HCReset

SpecHC == InitHC /\ [][NextHC]_vars

----------------------------------------------------------------------------
(* AgentConfig accessed by key: alias, __getitem__, __setitem__.  The      *)
(* variable cfg is the object's __dict__.                                  *)

AliasTable ==
    [training_batch_size |-> "bsize",
     discount_factor |-> "gamma",
     knowledge_transfer_rate |-> "tau",
     epsilon_greedy_rate |-> "epsilon",
     replay_memory_size |-> "xpsize",
     bsize |-> "bsize", gamma |-> "gamma",
     tau |-> "tau", xpsize |-> "xpsize",
     epsilon |-> "epsilon"]

(* Mutant: two long names are crossed in the table.                        *)
alias_crossed(item) ==
    IF item = "discount_factor" THEN <<"tau">>
    ELSE IF item = "knowledge_transfer_rate" THEN <<"gamma">>
    ELSE IF item \in DOMAIN AliasTable THEN <<AliasTable[item]>> ELSE <<>>

(* alias(item): the attribute <<name>>, or <<>> where the lookup raises    *)
(* KeyError.                                                               *)
alias(item) == IF item \in DOMAIN AliasTable THEN <<AliasTable[item]>> ELSE <<>>

(* Mutant: the key itself is used where it has no alias.                   *)
SetItemOf_unaliased(c, key, value) ==
    LET k == IF alias(key) = <<>> THEN key ELSE alias(key)[1]
    IN  [cfg |-> [f \in DOMAIN c \cup {k} |-> IF f = k THEN value ELSE c[f]],
         err |-> "none"]

(* __getitem__: the value returned and the exception raised.               *)
GetItemOf(c, item) ==
    IF alias(item) = <<>> \/ alias(item)[1] \notin DOMAIN c
    THEN [ret |-> RetNone, err |-> "KeyError"]
    ELSE [ret |-> <<c[alias(item)[1]]>>, err |-> "none"]

(* __setitem__: the __dict__ it leaves and the exception raised.           *)
SetItemOf(c, key, value) ==
    IF alias(key) = <<>>
    THEN [cfg |-> c, err |-> "KeyError"]
    ELSE LET k == alias(key)[1]
         IN  [cfg |-> [f \in DOMAIN c \cup {k} |-> IF f = k THEN value ELSE c[f]],
              err |-> "none"]

(* The keys a caller uses: every documented name and two unknown ones.     *)
Keys == DOMAIN AliasTable \cup {"learning_rate", "Gamma"}

OptionValues == {0, 1, Den}

InitCfg ==
    /\ kind = "HillClimbing"
    /\ cfg \in {AgentConfig(b, g, t, e, x) :
                   b \in {1, Den}, g \in {0, 1}, t \in {1, Den},
                   e \in {0, Den}, x \in {1, Den}}
    /\ net \in InitWeights
    /\ shadow_net = net
    /\ xp = Experience(cfg.xpsize)
    /\ X = <<>>
    /\ Y = <<>>
    /\ rewards = 0
    /\ Q = <<>>
    /\ R = <<>>
    /\ A = <<>>
    /\ bestreward = 0
    /\ op = "init"
    /\ arg = <<>>
    /\ ret = RetNone
    /\ err = "none"
    /\ calls = <<>>
    /\ batch = NoBatch
    /\ remembered = <<>>

GetItem(item) ==
    /\ LET g == GetItemOf(cfg, item)
       IN  Observe("getitem", <<item>>, g.ret, g.err, <<>>, NoBatch, <<>>)
    /\ UNCHANGED <<kind, cfg, net, shadow_net, xp, X, Y, rewards, Q, R, A, bestreward>>

SetItem(key, value) ==
    /\ LET t == SetItemOf(cfg, key, value)
       IN  /\ cfg' = t.cfg
           /\ Observe("setitem", <<key, value>>, RetNone, t.err, <<>>, NoBatch, <<>>)
    /\ UNCHANGED <<kind, net, shadow_net, xp, X, Y, rewards, Q, R, A, bestreward>>

NextCfg ==
    \/ \E item \in Keys : GetItem(item)
    \/ \E key \in Keys, value \in OptionValues : SetItem(key, value)

SpecCfg == InitCfg /\ [][NextCfg]_vars

----------------------------------------------------------------------------
(* Properties.                                                             *)

Called(f) == \E i \in DOMAIN calls : calls[i] = f

(* C1: the Experience buffer never holds more than its capacity, and every *)
(* remember leaves exactly the most recently remembered pairs, in          *)
(* insertion order, up to the capacity (what was there before, followed by *)
(* the new pairs, oldest dropped first).                                   *)
C1_BufferFifo ==
    /\ [](Len(xp.mem) <= xp.limit)
    /\ [][Called("remember")' =>
            LET all == xp.mem \o remembered'
                keep == Min2(Len(all), xp.limit)
            IN  /\ xp'.limit = xp.limit
                /\ Len(xp'.mem) = keep
                /\ \A j \in 1 .. keep : xp'.mem[j] = all[Len(all) - keep + j]]_vars

C1_Witness ==
    /\ Called("remember")
    /\ xp.limit = 1
    /\ Len(remembered) = 2
    /\ remembered[1] # remembered[2]
    /\ xp.mem = <<remembered[2]>>

(* C2: replay(n) on a buffer of k pairs returns min(n, k) pairs, each the  *)
(* input and target of one stored entry, no entry twice; on an empty       *)
(* buffer it returns empty X and Y and nothing fails.                      *)
C2_ReplaySample ==
    Called("replay") =>
        LET k == Len(xp.mem)
        IN  /\ Len(batch.X) = Min2(cfg.bsize, k)
            /\ Len(batch.Y) = Len(batch.X)
            /\ Len(batch.ix) = Len(batch.X)
            /\ \A i \in 1 .. Len(batch.ix) :
                  /\ batch.ix[i] \in 1 .. k
                  /\ batch.X[i] = xp.mem[batch.ix[i]].x
                  /\ batch.Y[i] = xp.mem[batch.ix[i]].y
                  /\ \A j \in 1 .. Len(batch.ix) : batch.ix[i] = batch.ix[j] => i = j
            /\ (k = 0 => batch.X = <<>> /\ batch.Y = <<>> /\ err = "none")

C2_Witness ==
    /\ Called("replay")
    /\ Len(xp.mem) = 2
    /\ cfg.bsize = 1
    /\ batch.ix = <<2>>
    /\ xp.mem[1] # xp.mem[2]

(* C3: DQN.accumulate stores, with every state_t of the episode that has  *)
(* a successor, the Q-vector predicted for state_t with the entry of       *)
(* action_t replaced by reward_{t+1} + gamma * max(Q_{t+1}) and every      *)
(* other entry unchanged.                                                  *)
C3_BellmanTargets ==
    [][(kind = "DeepQLearning" /\ Called("remember")') =>
          /\ Len(remembered') = Len(X) - 1
          /\ \A t \in 1 .. (Len(X) - 1) :
                /\ remembered'[t].x = X[t]
                /\ \A c \in Actions :
                      remembered'[t].y[c] =
                          IF c = A[t]
                          THEN Den * R[t + 1][1] + cfg.gamma * MaxOf(Q[t + 1])
                          ELSE Den * Q[t][c]]_vars

(* C4: an accumulate of PG or DQN that stores its episode does so before   *)
(* anything else, then resets the scratch state, then samples from the     *)
(* buffer that already holds the episode and trains, then soft-updates the *)
(* shadow weights from the weights the training left.                      *)
C4_AccumulateOrder ==
    [][(kind \in {"PG", "DeepQLearning"} /\ op' = "accumulate" /\ Called("remember")') =>
          /\ calls' = IF Len(batch'.X) = 0
                      THEN <<"remember", "reset", "replay">>
                      ELSE <<"remember", "reset", "replay", "train_on_batch",
                             "push_weights">>
          /\ X' = <<>>
          /\ \A i \in 1 .. Len(batch'.ix) :
                /\ batch'.X[i] = xp'.mem[batch'.ix[i]].x
                /\ batch'.Y[i] = xp'.mem[batch'.ix[i]].y
          /\ Len(batch'.X) > 0 =>
                /\ net' \in TrainOnBatch(net)
                /\ shadow_net' =
                      [a \in DOMAIN net' |->
                          ((Den - cfg.tau) * shadow_net[a]) \div Den
                              + (cfg.tau * net'[a]) \div Den]]_vars

C4_Witness ==
    /\ kind = "DeepQLearning"
    /\ op = "accumulate"
    /\ calls = <<"remember", "reset", "replay", "train_on_batch", "push_weights">>
    /\ Len(remembered) = 1
    /\ xp.mem[batch.ix[1]] = remembered[1]
    /\ cfg.tau = Den
    /\ shadow_net = net
    /\ net # <<0>>

(* C5: accumulate of PG and of DQN raises nothing after an episode of at   *)
(* least one sample call.                                                  *)
C5_AccumulateCompletes ==
    [][(kind \in {"PG", "DeepQLearning"} /\ op' = "accumulate" /\ Len(X) >= 1) =>
          err' = "none"]_vars

(* C6: learn_batch with an empty sample returns None, trains nothing and   *)
(* leaves the live weights, the shadow weights and the buffer as they are. *)
C6_EmptyBatchNoOp ==
    [][(op' = "learn_batch" /\ Len(batch'.X) = 0) =>
          /\ ret' = RetNone
          /\ err' = "none"
          /\ ~Called("train_on_batch")'
          /\ ~Called("push_weights")'
          /\ net' = net
          /\ shadow_net' = shadow_net
          /\ xp' = xp]_vars

C6_Witness ==
    /\ op = "learn_batch"
    /\ xp.mem = <<>>
    /\ batch.X = <<>>
    /\ ret = RetNone
    /\ calls = <<"replay">>

(* C7: with epsilon = 0 every action DQN.sample returns is the arg-max of  *)
(* the Q-vector predicted for the state.                                   *)
C7_GreedyAtZeroEpsilon ==
    (kind = "DeepQLearning" /\ op = "sample" /\ cfg.epsilon = 0) =>
        ret = RetAction(ArgMax(Q[Len(Q)]))

(* C8: with epsilon = 0 PG.sample never returns an action to which the     *)
(* model assigns probability 0.                                            *)
C8_NoZeroProbabilityAction ==
    (kind = "PG" /\ op = "sample" /\ cfg.epsilon = 0) =>
        PredictProbs(net, arg[1])[ret[1]] > 0

(* C9: with gamma = 0, PG.accumulate after T >= 1 sample calls stores T    *)
(* pairs; the i-th is state_i with a label that is zero except at the      *)
(* action chosen at step i, where it is the reward recorded at step i+1    *)
(* (the terminal reward for the last step), neither discounted nor         *)
(* normalised.                                                             *)
C9_UndiscountedLabels ==
    [][(kind = "PG" /\ cfg.gamma = 0 /\ op' = "accumulate" /\ Len(X) >= 1) =>
          LET T == Len(X)
              r(i) == IF i < T THEN rewards[i + 1][1] ELSE arg'[1]
              keep == Min2(T, xp.limit)
          IN  /\ Len(remembered') = T
              /\ \A i \in 1 .. T :
                    /\ remembered'[i].x = X[i]
                    /\ \A a \in Actions :
                          remembered'[i].y[a] =
                              IF Y[i][a] = Num(1) THEN Num(r(i)) ELSE Num(0)
              /\ \A j \in 1 .. keep :
                    xp'.mem[Len(xp'.mem) - keep + j] = remembered'[T - keep + j]]_vars

C9_Witness ==
    /\ kind = "PG"
    /\ cfg.gamma = 0
    /\ op = "accumulate"
    /\ Len(remembered) = 2
    /\ xp.mem = remembered
    /\ \E a \in Actions : remembered[1].y[a] = Num(0 - arg[1])
    /\ \E a \in Actions : remembered[2].y[a] = Num(arg[1])

(* C10: every HillClimbing.accumulate moves the live weights to perturbed  *)
(* ones; the shadow weights and bestreward change only when the episode's  *)
(* cumulative reward is strictly greater than bestreward.                  *)
C10_HillClimbing ==
    [][(kind = "HillClimbing" /\ op' = "accumulate") =>
          /\ net' \in Perturbed(net)
          /\ net' # net
          /\ (shadow_net' # shadow_net \/ bestreward' # bestreward) =>
                rewards > bestreward
          /\ rewards > bestreward =>
                (bestreward' = rewards /\ shadow_net' = net)]_vars

C10_Witness ==
    /\ kind = "HillClimbing"
    /\ op = "accumulate"
    /\ bestreward = 2
    /\ shadow_net # net
    /\ shadow_net # <<0>>

(* C11: every option reads the same by its long name and by its short     *)
(* name, and a set through any name of an option is read back through      *)
(* both names of that option while every other option reads as before.     *)
C11_LongName ==
    [bsize |-> "training_batch_size", gamma |-> "discount_factor",
     tau |-> "knowledge_transfer_rate", epsilon |-> "epsilon_greedy_rate",
     xpsize |-> "replay_memory_size"]

C11_Aliasing ==
    /\ [](\A f \in DOMAIN C11_LongName :
             /\ GetItemOf(cfg, f) = [ret |-> <<cfg[f]>>, err |-> "none"]
             /\ GetItemOf(cfg, C11_LongName[f]) = GetItemOf(cfg, f))
    /\ [][(op' = "setitem" /\ err' = "none") =>
            \E g \in DOMAIN C11_LongName :
               /\ arg'[1] \in {g, C11_LongName[g]}
               /\ \A f \in DOMAIN C11_LongName :
                     /\ GetItemOf(cfg', f).ret =
                           IF f = g THEN <<arg'[2]>> ELSE GetItemOf(cfg, f).ret
                     /\ GetItemOf(cfg', C11_LongName[f]).ret =
                           IF f = g THEN <<arg'[2]>> ELSE GetItemOf(cfg, f).ret]_vars

C11_Witness ==
    /\ op = "setitem"
    /\ arg = <<"discount_factor", 1>>
    /\ err = "none"
    /\ cfg.gamma = 1
    /\ cfg.tau = Den
    /\ cfg.bsize = 0

(* C12: a get or a set by a name that is neither a canonical name nor a    *)
(* documented alias raises the unknown-option error (KeyError), and the    *)
(* failed set changes no stored value and adds no entry.                   *)
C12_UnknownOption ==
    [][(op' \in {"getitem", "setitem"} /\ arg'[1] \notin DOMAIN AliasTable) =>
          /\ err' = "KeyError"
          /\ ret' = RetNone
          /\ cfg' = cfg
          /\ DOMAIN cfg' = {"bsize", "gamma", "tau", "epsilon", "xpsize"}]_vars

C12_Witness ==
    /\ op = "setitem"
    /\ arg = <<"learning_rate", 1>>
    /\ err = "KeyError"
    /\ cfg.gamma = 0

(* C13: in every operation of every variant the shadow weights change     *)
(* only by the soft update of push_weights.                                *)
C13_ShadowOnlyByPush ==
    [][shadow_net' # shadow_net =>
          (op' = "push_weights" \/ Called("push_weights")')]_vars

(* C13 as amended: the shadow weights change only by the soft update of    *)
(* push_weights, or in a HillClimbing.accumulate whose episode reward is   *)
(* strictly greater than bestreward, which sets them to the live weights.  *)
C13_ShadowByPushOrBest ==
    [][shadow_net' # shadow_net =>
          \/ /\ (op' = "push_weights" \/ Called("push_weights")')
             /\ shadow_net' =
                   [a \in DOMAIN net' |->
                       ((Den - cfg.tau) * shadow_net[a]) \div Den
                           + (cfg.tau * net'[a]) \div Den]
          \/ /\ kind = "HillClimbing"
             /\ op' = "accumulate"
             /\ rewards > bestreward
             /\ shadow_net' = net]_vars

C13_Witness ==
    /\ kind = "HillClimbing"
    /\ op = "accumulate"
    /\ bestreward = 1
    /\ shadow_net = <<1>>
    /\ net = <<2>>

(* C14: learn_batch with a non-empty sample trains once, then pushes the   *)
(* weights once, and returns the cost of the training with the drift of    *)
(* the push, in this order.                                                *)
C14_LearnBatchTrainsThenPushes ==
    [][(op' = "learn_batch" /\ Len(batch'.X) > 0) =>
          /\ calls' = <<"replay", "train_on_batch", "push_weights">>
          /\ net' \in TrainOnBatch(net)
          /\ Len(ret') = 2
          /\ ret'[1] \in Costs
          /\ ret'[2] = [ss |-> SumSeq([i \in 1 .. Len(net') |->
                                          (shadow_net[i] - net'[i])
                                              * (shadow_net[i] - net'[i])]),
                        n |-> Len(net')]
          /\ err' = "none"]_vars

C14_Witness ==
    /\ op = "learn_batch"
    /\ Len(batch.X) > 0
    /\ calls = <<"replay", "train_on_batch", "push_weights">>
    /\ Len(ret) = 2
    /\ ret[1] = 1
    /\ ret[2].ss > 0
    /\ shadow_net # net

(* C15: push_weights sets every shadow weight to (1 - tau) * shadow +      *)
(* tau * live, returns the drift of the shadow weights it found (before    *)
(* the update) from the live weights, over the number of weights, and      *)
(* leaves the live weights alone; with tau = 1 the shadow weights are the  *)
(* live weights afterwards.                                                *)
C15_SoftUpdate ==
    [][op' = "push_weights" =>
          /\ \A a \in DOMAIN net :
                shadow_net'[a] = ((Den - cfg.tau) * shadow_net[a]) \div Den
                                    + (cfg.tau * net[a]) \div Den
          /\ DOMAIN shadow_net' = DOMAIN net
          /\ ret' = <<[ss |-> SumSeq([i \in 1 .. Len(net) |->
                                         (shadow_net[i] - net[i])
                                             * (shadow_net[i] - net[i])]),
                       n |-> Len(net)]>>
          /\ net' = net
          /\ cfg.tau = Den => shadow_net' = net']_vars

C15_Witness ==
    /\ op = "push_weights"
    /\ cfg.tau = 1
    /\ ret[1].ss = 4
    /\ shadow_net = <<1>>
    /\ net = <<2>>

(* C16: reset of PG and DQN empties every scratch sequence and changes     *)
(* nothing else; after every accumulate of PG and DQN every scratch        *)
(* sequence is empty, so nothing recorded in one episode is left for a     *)
(* later one.                                                              *)
C16_ScratchEmptied ==
    [][(kind \in {"PG", "DeepQLearning"} /\ op' \in {"reset", "accumulate"}) =>
          /\ X' = <<>> /\ Y' = <<>> /\ rewards' = <<>>
          /\ Q' = <<>> /\ R' = <<>> /\ A' = <<>>
          /\ op' = "reset" =>
                /\ net' = net /\ shadow_net' = shadow_net
                /\ xp' = xp /\ cfg' = cfg /\ bestreward' = bestreward]_vars

(* C17: HillClimbing driven by sample, accumulate and reset never calls    *)
(* remember, replay or train_on_batch, its buffer stays empty, and its     *)
(* live weights change only by the perturbation in accumulate.             *)
C17_NoBufferNoTraining ==
    /\ [](xp.mem = <<>>)
    /\ [](~ Called("remember") /\ ~ Called("replay")
             /\ ~ Called("train_on_batch") /\ remembered = <<>>
             /\ batch = NoBatch)
    /\ [][net' # net => (op' = "accumulate" /\ net' \in Perturbed(net))]_vars

C17_Witness ==
    /\ kind = "HillClimbing"
    /\ op = "accumulate"
    /\ calls = <<"reset">>
    /\ net = <<2>>
    /\ xp.mem = <<>>
    /\ bestreward = 0

(* C18: PG.accumulate with gamma > 0 never divides by a zero standard      *)
(* deviation: the labels it stores are numbers, also for an episode whose  *)
(* discounted rewards have no variance.                                    *)
C18_LabelsWellDefined ==
    (kind = "PG" /\ cfg.gamma > 0) =>
        \A i \in 1 .. Len(xp.mem) : \A a \in Actions : xp.mem[i].y[a] # NaN

(* C19: the reward HillClimbing compares with bestreward is the sum of     *)
(* the rewards passed to sample since the last reset, an absent reward     *)
(* counting as 0; the reward passed to accumulate is no part of it.        *)
C19_CumulativeReward ==
    [][/\ op' = "sample" =>
             rewards' = rewards + (IF arg'[2] = None THEN 0 ELSE arg'[2][1])
       /\ op' = "reset" => rewards' = 0
       /\ op' = "accumulate" =>
             /\ bestreward' = IF rewards > bestreward THEN rewards ELSE bestreward
             /\ (shadow_net' # shadow_net <=>
                    (rewards > bestreward /\ net # shadow_net))
             /\ rewards' = 0]_vars

C19_Witness ==
    /\ kind = "HillClimbing"
    /\ op = "accumulate"
    /\ arg = <<1>>
    /\ bestreward = 1
    /\ rewards = 0
    /\ shadow_net = <<0>>
    /\ net = <<1>>

(* C20: over HillClimbing episodes bestreward never decreases and is never *)
(* below 0, and whenever it is raised the shadow weights become the live   *)
(* weights the episode ran with, and stay so until it is raised again.     *)
C20_BestNeverWorse ==
    /\ [](bestreward >= 0)
    /\ [][/\ bestreward' >= bestreward
          /\ bestreward' > bestreward =>
                /\ op' = "accumulate"
                /\ rewards > 0
                /\ bestreward' = rewards
                /\ shadow_net' = net
          /\ bestreward' = bestreward => shadow_net' = shadow_net]_vars

C20_Witness ==
    /\ kind = "HillClimbing"
    /\ op = "sample"
    /\ rewards = -2
    /\ bestreward = 1
    /\ shadow_net = <<1>>
    /\ net = <<0>>

====
